---- MODULE Spec2Model ----
(***************************************************************************)
(* A model of spectral/algorithms/algorithms.py (Spectral Python): the     *)
(* pixel iterators, mean_cov, reduceEigenvectors, linearDiscriminant,      *)
(* TrainingClass, TrainingClassSet and createTrainingClasses.              *)
(*                                                                         *)
(* Numbers.  A float is modelled by an exact rational <<n, d>> in lowest   *)
(* terms with d > 0; the IEEE non-finite values numpy produces on a        *)
(* division by zero are <<0, 0>> (nan), <<1, 0>> (inf) and <<-1, 0>>       *)
(* (-inf).  A vector is a sequence of numbers, a matrix a sequence of rows.*)
(*                                                                         *)
(* Calls.  A Python call either returns or raises; the outcome of the last *)
(* call is kept in the variable ret as [op, exc, ...], exc = "none" for a  *)
(* normal return.                                                          *)
(***************************************************************************)
EXTENDS Integers, Sequences, FiniteSets, TLC

VARIABLES
    images,   \* heap of image arrays (ndarray MxNxB, flattened row-major): id -> [bands, pix]
    mask,     \* the label array classMask / mask, flattened (mask.ravel()); shared by reference
    objs,     \* heap of TrainingClass objects: id -> record of the object's attributes
    ts,       \* the TrainingClassSet: [classes: index -> object id, numBands]
    ret       \* outcome of the last call

vars == <<images, mask, objs, ts, ret>>

(***************************************************************************)
(* Bounds of the model.                                                    *)
(***************************************************************************)
MaxLabel == 2      \* labels of the label array are 0..MaxLabel
MaxObjs == 3       \* TrainingClass objects alive at once
MaxImages == 2     \* image arrays alive at once (the base image and derived ones)
MaxEig == 3        \* eigenvalues handed to reduceEigenvectors are 0..MaxEig
MaxLen == 3        \* length of the sequences handed to the pure functions

\* An optional value (an argument that may be None, an attribute an object may
\* not have) is a sequence: <<>> when it is None / absent, <<x>> when it is x.
None == <<>>
Some(x) == <<x>>

(***************************************************************************)
(* Float arithmetic (exact rationals plus nan / inf).                      *)
(***************************************************************************)
Abs(x) == IF x < 0 THEN -x ELSE x
Sgn(x) == IF x < 0 THEN -1 ELSE IF x > 0 THEN 1 ELSE 0
Min(a, b) == IF a <= b THEN a ELSE b
Max(a, b) == IF a >= b THEN a ELSE b

RECURSIVE Gcd(_, _)
Gcd(a, b) == IF b = 0 THEN a ELSE Gcd(b, a % b)

\* the float n/d: lowest terms, positive denominator; d = 0 gives nan or +-inf
Norm(n, d) ==
    IF d = 0 THEN <<Sgn(n), 0>>
    ELSE LET g == Gcd(Abs(n), Abs(d))
         IN  <<Sgn(d) * (n \div g), Abs(d) \div g>>

F(n) == <<n, 1>>                 \* float(n)
Zero == <<0, 1>>
NaN == <<0, 0>>
IsFinite(a) == a[2] # 0
IsNaN(a) == a = NaN

\* The(S): the element of a one-element set.  Operands are bound through
\* { e : x \in {a} } so that each is evaluated once, however often it is used.
The(S) == CHOOSE r \in S : TRUE

FAdd(a, b) ==
    The({ IF x[2] = 0 /\ y[2] = 0 THEN (IF x = y THEN x ELSE NaN)
          ELSE Norm(x[1] * y[2] + y[1] * x[2], x[2] * y[2]) : x \in {a}, y \in {b} })
FNeg(a) == The({ <<-x[1], x[2]>> : x \in {a} })
FSub(a, b) == FAdd(a, FNeg(b))
FMul(a, b) == The({ Norm(x[1] * y[1], x[2] * y[2]) : x \in {a}, y \in {b} })
\* numpy float division: x / 0 is nan or +-inf (a warning, no exception)
FDiv(a, b) ==
    The({ IF y[2] = 0 THEN (IF y[1] = 0 \/ x[2] = 0 THEN NaN ELSE Zero)
          ELSE IF y[1] = 0 THEN <<Sgn(x[1]), 0>>
          ELSE IF x[2] = 0 THEN <<x[1] * Sgn(y[1]), 0>>
          ELSE Norm(x[1] * y[2], x[2] * y[1]) : x \in {a}, y \in {b} })
\* a >= b on floats: false whenever either side is nan
FGeq(a, b) ==
    The({ IF IsNaN(x) \/ IsNaN(y) THEN FALSE
          ELSE IF x[2] = 0 /\ y[2] = 0 THEN x[1] >= y[1]
          ELSE IF x[2] = 0 THEN x[1] > 0
          ELSE IF y[2] = 0 THEN y[1] < 0
          ELSE x[1] * y[2] >= y[1] * x[2] : x \in {a}, y \in {b} })
FGt(a, b) == The({ FGeq(x, y) /\ x # y : x \in {a}, y \in {b} })

\* ---- vectors and matrices (numpy.ndarray) ----
VZeros(n) == [i \in 1..n |-> Zero]                     \* zeros((n,), 'd')
MZeros(r, c) == [i \in 1..r |-> [j \in 1..c |-> Zero]] \* zeros((r, c), 'd')
Rows(m) == Len(m)
Cols(m) == The({ IF Len(x) = 0 THEN 0 ELSE Len(x[1]) : x \in {m} })
VAdd(u, v) == The({ [i \in 1..Len(x) |-> FAdd(x[i], y[i])] : x \in {u}, y \in {v} })
VSub(u, v) == The({ [i \in 1..Len(x) |-> FSub(x[i], y[i])] : x \in {u}, y \in {v} })
VScale(k, v) == The({ [i \in 1..Len(y) |-> FMul(x, y[i])] : x \in {k}, y \in {v} })
VDivS(v, k) == The({ [i \in 1..Len(x) |-> FDiv(x[i], y)] : x \in {v}, y \in {k} })
MAdd(a, b) == The({ [i \in 1..Len(x) |-> VAdd(x[i], y[i])] : x \in {a}, y \in {b} })
MSub(a, b) == The({ [i \in 1..Len(x) |-> VSub(x[i], y[i])] : x \in {a}, y \in {b} })
MScale(k, a) == The({ [i \in 1..Len(y) |-> VScale(x, y[i])] : x \in {k}, y \in {a} })
MDivS(a, k) == The({ [i \in 1..Len(x) |-> VDivS(x[i], y)] : x \in {a}, y \in {k} })
\* dot(x, transpose(x)) of a column x
Outer(u, v) == The({ [i \in 1..Len(x) |-> [j \in 1..Len(y) |-> FMul(x[i], y[j])]] : x \in {u}, y \in {v} })
Transpose(a) == The({ [j \in 1..Cols(x) |-> [i \in 1..Rows(x) |-> x[i][j]]] : x \in {a} })
MFinite(a) == The({ \A i \in 1..Len(x) : \A j \in 1..Len(x[i]) : IsFinite(x[i][j]) : x \in {a} })

RECURSIVE FSum(_, _)
FSum(f, n) == IF n = 0 THEN Zero ELSE The({ FAdd(FSum(x, n - 1), x[n]) : x \in {f} })
\* numpy.dot's shape rule: the inner dimensions must agree, else ValueError
DotAligned(a, b) == Cols(a) = Rows(b)
Dot(a, b) ==
    The({ [i \in 1..Rows(x) |-> [j \in 1..Cols(y) |->
              FSum([k \in 1..Cols(x) |-> FMul(x[i][k], y[k][j])], Cols(x))]] : x \in {a}, y \in {b} })
DotMV(a, v) ==
    The({ [i \in 1..Rows(x) |-> FSum([k \in 1..Len(y) |-> FMul(x[i][k], y[k])], Len(y))]
          : x \in {a}, y \in {v} })

(***************************************************************************)
(* numpy.linalg, for the 1x1 and 2x2 matrices the model's images produce.  *)
(***************************************************************************)
Det(a) ==
    The({ IF Rows(x) = 1 THEN x[1][1]
          ELSE FSub(FMul(x[1][1], x[2][2]), FMul(x[1][2], x[2][1])) : x \in {a} })

\* numpy.linalg.inv: LinAlgError("Singular matrix") on an exactly zero pivot;
\* a matrix of nan has no zero pivot and inverts to nan without an error
inv(a) ==
    The({ IF Rows(x) # Cols(x) \/ Rows(x) = 0 THEN [exc |-> "LinAlgError", val |-> None]
          ELSE IF d = Zero THEN [exc |-> "LinAlgError", val |-> None]
          ELSE IF Rows(x) = 1 THEN [exc |-> "none", val |-> <<<<FDiv(F(1), x[1][1])>>>>]
          ELSE [exc |-> "none",
                val |-> <<<<FDiv(x[2][2], d), FDiv(FNeg(x[1][2]), d)>>,
                          <<FDiv(FNeg(x[2][1]), d), FDiv(x[1][1], d)>>>>]
          : x \in {a}, d \in {IF Rows(a) = Cols(a) /\ Rows(a) > 0 THEN Det(a) ELSE Zero} })

\* sum(log(eigv) for the eigenvalues eigv > 0 of x): a real number that is a
\* function of x alone, kept symbolic; numpy.linalg.eigvals refuses an array
\* holding nan or inf (LinAlgError)
logDeterminant(x) ==
    IF ~MFinite(x) THEN [exc |-> "LinAlgError", val |-> None]
    ELSE [exc |-> "none", val |-> <<"logdet", x>>]

\* numpy.linalg.eig of a BxB array: B eigenvalues and a BxB array whose
\* columns are the eigenvectors, kept symbolic; refuses nan / inf as eigvals does
eig(a) ==
    IF ~MFinite(a) \/ Rows(a) # Cols(a) THEN [exc |-> "LinAlgError", vals |-> None, vecs |-> None]
    ELSE [exc |-> "none",
          vals |-> [i \in 1..Rows(a) |-> <<"eigval", i>>],
          vecs |-> [i \in 1..Rows(a) |-> [j \in 1..Rows(a) |-> <<"eigvec", j, i>>]]]

(***************************************************************************)
(* Pixel iterators (class Iterator and its children).                      *)
(***************************************************************************)
Truthy(x) == x # None /\ x[1] # 0       \* Python's truth value of an optional int

RECURSIVE Compress(_, _, _)
\* the pixels pix[p], p = 1..n, whose selector sel[p] is true, in order
Compress(sel, pix, n) ==
    IF n = 0 THEN <<>>
    ELSE IF sel[n] THEN Append(Compress(sel, pix, n - 1), pix[n])
    ELSE Compress(sel, pix, n - 1)

Count(sel) == Cardinality({p \in DOMAIN sel : sel[p]})   \* sum(self.mask.ravel())

\* ImageIterator(im): every pixel of the image
ImageIterator(im) ==
    [exc |-> "none", numElements |-> Len(im.pix), numBands |-> im.bands,
     samples |-> im.pix]

\* ImageMaskIterator(im, mask, index): not_equal is not a name of the module
\* (line 82), so the branch taken for a false index raises NameError
ImageMaskIterator(im, m, index) ==
    IF Truthy(index)
    THEN LET sel == [p \in DOMAIN m |-> m[p] = index[1]]    \* numpy.equal(mask, index)
         IN  [exc |-> "none", numElements |-> Count(sel), numBands |-> im.bands,
              samples |-> Compress(sel, im.pix, Len(m))]
    ELSE [exc |-> "NameError", numElements |-> 0, numBands |-> 0, samples |-> <<>>]

iterator(im, m, index) ==
    IF m # None THEN ImageMaskIterator(im, m[1], index) ELSE ImageIterator(im)

(***************************************************************************)
(* mean_cov                                                                *)
(***************************************************************************)
RECURSIVE SumX(_, _, _)
\* sumX after the first n samples
SumX(xs, n, B) == IF n = 0 THEN VZeros(B) ELSE The({ VAdd(SumX(x, n - 1, B), x[n]) : x \in {xs} })

\* an integer wrapped into the range of a signed integer type of the given width
WrapInt(n, bits) == ((n + 2^(bits - 1)) % 2^bits) - 2^(bits - 1)

\* the element type of the pixels of an array: float, or a signed integer type
\* of im.bits bits.  ImageIterator yields image[i, j] as it is stored;
\* ImageMaskIterator casts each sample to typecode(image), the type of the image
dtypeBits(im) == IF "bits" \in DOMAIN im THEN Some(im.bits) ELSE None

\* dot(x, transpose(x)) of the column x = x[:, newaxis]: numpy forms the
\* products in the element type of x, and integer products wrap silently
SampleOuter(x, bits) ==
    IF bits = None THEN Outer(x, x)
    ELSE [i \in 1..Len(x) |-> [j \in 1..Len(x) |-> F(WrapInt(x[i][1] * x[j][1], bits[1]))]]

RECURSIVE SumX2(_, _, _, _)
\* sumX2 after the first n samples
SumX2(xs, n, B, bits) ==
    IF n = 0 THEN MZeros(B, B)
    ELSE The({ MAdd(SumX2(x, n - 1, B, bits), SampleOuter(x[n], bits)) : x \in {xs} })

mean_cov(im, m, index) ==
    The({ IF it.exc # "none" THEN [exc |-> it.exc, mean |-> <<>>, cov |-> <<>>, count |-> 0]
          ELSE LET B == it.numBands
                   count == Len(it.samples)
                   sumX == SumX(it.samples, count, B)
                   sumX2 == SumX2(it.samples, count, B, dtypeBits(im))
               IN  [exc |-> "none",
                    mean |-> VDivS(sumX, F(count)),
                    cov |-> MDivS(MSub(sumX2, MDivS(Outer(sumX, sumX), F(count))), F(count - 1)),
                    count |-> count]
          : it \in {iterator(im, m, index)} })

(***************************************************************************)
(* reduceEigenvectors                                                      *)
(***************************************************************************)
RECURSIVE cumsum(_, _)
\* Numeric.cumsum(L)[n - 1] (indices here are 1-based, Python's are 0-based)
cumsum(L, n) == IF n = 0 THEN Zero ELSE The({ FAdd(cumsum(x, n - 1), x[n]) : x \in {L} })

RECURSIVE reduceLoop_strict(_, _, _, _, _)
\* the loop with > in place of >=
reduceLoop_strict(L, sum, fraction, i, n) ==
    IF i >= n THEN n
    ELSE IF FGt(FDiv(cumsum(L, i), sum), fraction) THEN i
    ELSE reduceLoop_strict(L, sum, fraction, i + 1, n)

RECURSIVE reduceLoop(_, _, _, _, _)
\* for i in range(len(L)): if (cumEig[i] / sum) >= fraction: break
\* the value of i + 1 when the loop is left, from iteration i on (n = len(L))
reduceLoop(L, sum, fraction, i, n) ==
    IF i >= n THEN n
    ELSE IF FGeq(FDiv(cumsum(L, i), sum), fraction) THEN i
    ELSE reduceLoop(L, sum, fraction, i + 1, n)

\* L[:k], V[:k, :]
Prefix(s, k) == SubSeq(s, 1, Min(k, Len(s)))

\* the crop one short: L[:i], V[:i, :]
cropEig_short(L, V, k) == [exc |-> "none", L |-> Prefix(L, k - 1), V |-> Prefix(V, k - 1)]

\* if i == len(L) - 1: return (L, V); else L[:i + 1], V[:i + 1, :]   (k = i + 1)
cropEig(L, V, k) ==
    IF k = Len(L) THEN [exc |-> "none", L |-> L, V |-> V]
    ELSE [exc |-> "none", L |-> Prefix(L, k), V |-> Prefix(V, k)]

reduceEigenvectors(L, V, fraction) ==
    IF Len(L) = 0 THEN [exc |-> "IndexError", L |-> <<>>, V |-> <<>>]   \* cumEig[-1]
    ELSE cropEig(L, V, reduceLoop(L, cumsum(L, Len(L)), fraction, 1, Len(L)))

(***************************************************************************)
(* The calls of the pure functions: each specification below draws the     *)
(* arguments of one function from bounded sets and records the call.       *)
(***************************************************************************)
NoSet == [classes |-> <<>>, numBands |-> None]      \* TrainingClassSet()

RECURSIVE SeqsUpTo(_, _)
\* the sequences over S of length at most n
SeqsUpTo(S, n) ==
    IF n = 0 THEN {<<>>}
    ELSE SeqsUpTo(S, n - 1) \cup [1..n -> S]

EigVals == {F(k) : k \in 0..MaxEig}
EigRows == {<<F(1), F(0)>>, <<F(0), F(1)>>}
Fractions == {<<1, 2>>, <<9, 10>>, <<99, 100>>, <<1, 1>>}

Idle ==
    /\ images = <<>>
    /\ mask = <<>>
    /\ objs = <<>>
    /\ ts = NoSet

\* the arguments of a reduceEigenvectors call
ReduceInit ==
    /\ Idle
    /\ \E L \in SeqsUpTo(EigVals, MaxLen) :
         \E V \in [1..Len(L) -> EigRows] :
           \E fraction \in Fractions :
             ret = [op |-> "args", L |-> L, V |-> V, fraction |-> fraction]

ReduceCall ==
    /\ ret.op = "args"
    /\ ret' = [op |-> "reduceEigenvectors", L |-> ret.L, V |-> ret.V, fraction |-> ret.fraction,
               out |-> reduceEigenvectors(ret.L, ret.V, ret.fraction)]
    /\ UNCHANGED <<images, mask, objs, ts>>

SpecReduce == ReduceInit /\ [][ReduceCall]_vars

(***************************************************************************)
(* Properties of reduceEigenvectors (checked under SpecReduce).  The       *)
(* reference values are computed on the integer eigenvalues directly.      *)
(***************************************************************************)
RECURSIVE IntSum(_, _)
IntSum(L, k) == IF k = 0 THEN 0 ELSE IntSum(L, k - 1) + L[k][1]

\* L is a non-empty sequence of non-negative eigenvalues in descending order
DescNonNeg(L) ==
    /\ Len(L) >= 1
    /\ \A i \in 1..Len(L) : L[i][1] >= 0 /\ L[i][2] = 1
    /\ \A i \in 1..(Len(L) - 1) : L[i][1] >= L[i + 1][1]

\* the smallest k with sum(L[:k]) / sum(L) >= fraction  (sum(L) > 0)
SmallestPrefix(L, fraction) ==
    CHOOSE k \in 1..Len(L) :
        /\ fraction[2] * IntSum(L, k) >= fraction[1] * IntSum(L, Len(L))
        /\ \A j \in 1..(k - 1) : fraction[2] * IntSum(L, j) < fraction[1] * IntSum(L, Len(L))

Reduced == ret.op = "reduceEigenvectors"

\* C8 (as stated): for every non-empty descending sequence L of non-negative
\* eigenvalues, also one ending in zero eigenvalues, and every V,
\* reduceEigenvectors(L, V, 1.0) returns L and V unchanged.
C8_FullInputAtOne ==
    (Reduced /\ ret.fraction = F(1) /\ DescNonNeg(ret.L))
        => (ret.out.exc = "none" /\ ret.out.L = ret.L /\ ret.out.V = ret.V)

\* C8 (amended): with fraction 1.0 the result is the prefix of the positive
\* eigenvalues (the shortest prefix whose sum is the total) and the same rows
\* of V; it is the whole input when the last eigenvalue is positive or when all
\* eigenvalues are zero.
C8_PositivePrefixAtOne ==
    (Reduced /\ ret.fraction = F(1) /\ DescNonNeg(ret.L))
        => LET npos == Cardinality({i \in 1..Len(ret.L) : ret.L[i][1] > 0})
               k == IF npos = 0 THEN Len(ret.L) ELSE npos
           IN  /\ ret.out.exc = "none"
               /\ ret.out.L = SubSeq(ret.L, 1, k)
               /\ ret.out.V = SubSeq(ret.V, 1, k)
               /\ (ret.L[Len(ret.L)][1] > 0 => (ret.out.L = ret.L /\ ret.out.V = ret.V))

\* a call with fraction 1.0 on three positive descending eigenvalues, returned whole
C8_Witness ==
    /\ Reduced /\ ret.fraction = F(1) /\ DescNonNeg(ret.L)
    /\ Len(ret.L) = 3 /\ ret.L[3][1] > 0 /\ ret.L[1][1] > ret.L[3][1]
    /\ ret.out.L = ret.L /\ ret.out.V = ret.V

\* C9: for non-negative descending eigenvalues L with positive sum and a
\* fraction in (0, 1], reduceEigenvectors returns the first k eigenvalues and
\* the first k rows of V, k the smallest prefix length with
\* sum(L[:k]) / sum(L) >= fraction.
C9_SmallestPrefix ==
    (Reduced /\ DescNonNeg(ret.L) /\ IntSum(ret.L, Len(ret.L)) > 0)
        => LET k == SmallestPrefix(ret.L, ret.fraction)
           IN  /\ ret.out.exc = "none"
               /\ ret.out.L = SubSeq(ret.L, 1, k)
               /\ ret.out.V = SubSeq(ret.V, 1, k)

\* a call that really truncates: fraction below 1, two of three eigenvalues kept
C9_Witness ==
    /\ Reduced /\ DescNonNeg(ret.L) /\ IntSum(ret.L, Len(ret.L)) > 0
    /\ ret.fraction # F(1) /\ Len(ret.L) = 3 /\ ret.L[3][1] > 0
    /\ Len(ret.out.L) = 2 /\ Len(ret.out.V) = 2

(***************************************************************************)
(* The images of the model (MxNxB arrays, flattened to their M*N pixels)   *)
(* and the label arrays over them.                                         *)
(***************************************************************************)
ImgA == [bands |-> 1, pix |-> <<<<F(1)>>, <<F(2)>>, <<F(4)>>, <<F(4)>>>>]
ImgB == [bands |-> 2, pix |-> <<<<F(0), F(0)>>, <<F(1), F(0)>>, <<F(0), F(1)>>, <<F(1), F(1)>>>>]
ImgC == [bands |-> 1, pix |-> <<<<F(3)>>>>]
\* an array of 8-bit integers
ImgI == [bands |-> 1, pix |-> <<<<F(12)>>, <<F(2)>>, <<F(2)>>>>, bits |-> 8]
BaseImages == {ImgA, ImgB, ImgC, ImgI}

Labels == 0..MaxLabel
LabelArrays(im) == [1..Len(im.pix) -> Labels]

(***************************************************************************)
(* Calls of mean_cov(image, mask, index).                                  *)
(***************************************************************************)
MeanCovInit ==
    /\ Idle
    /\ \E im \in BaseImages :
         \E m \in {None} \cup {Some(a) : a \in LabelArrays(im)} :
           \E index \in {None} \cup {Some(k) : k \in Labels} :
             ret = [op |-> "args", image |-> im, mask |-> m, index |-> index]

MeanCovCall ==
    /\ ret.op = "args"
    /\ ret' = [op |-> "mean_cov", image |-> ret.image, mask |-> ret.mask, index |-> ret.index,
               out |-> mean_cov(ret.image, ret.mask, ret.index)]
    /\ UNCHANGED <<images, mask, objs, ts>>

SpecMeanCov == MeanCovInit /\ [][MeanCovCall]_vars

\* the number of pixels the documented selection of (image, mask, index) holds:
\* all pixels without a mask, mask == index with both, mask != 0 with a mask only
NumSelected(im, m, index) ==
    IF m = None THEN Len(im.pix)
    ELSE IF index = None THEN Cardinality({p \in 1..Len(m[1]) : m[1][p] # 0})
    ELSE Cardinality({p \in 1..Len(m[1]) : m[1][p] = index[1]})

\* C6: mean_cov on a sample source that yields fewer than 2 samples (N = 0 or
\* N = 1) fails with an error instead of returning a (mean, cov, count) result.
C6_FewSamplesFail ==
    (ret.op = "mean_cov" /\ NumSelected(ret.image, ret.mask, ret.index) < 2)
        => ret.out.exc # "none"

(***************************************************************************)
(* GaussianStats and TrainingClass.  An object is the record of its        *)
(* attributes; stats is optional (hasattr(cl, 'stats')), and so is every   *)
(* attribute of a GaussianStats but numSamples.  image is the id of an     *)
(* array of the heap images; mask is the shared label array.               *)
(***************************************************************************)
GaussianStats ==
    [numSamples |-> 0, mean |-> None, cov |-> None, invCov |-> None, logDetCov |-> None]

\* TrainingClass.__init__(image, mask, index, classProb)
TrainingClass(imageId, im, index, classProb) ==
    [image |-> imageId, numBands |-> im.bands, index |-> index, classProb |-> classProb,
     _statsValid |-> FALSE, _size |-> 0, stats |-> None]

\* TrainingClass.statsValid(tf)
statsValid(cl, tf) == [cl EXCEPT !._statsValid = tf]

\* TrainingClass.size(): the cached count, or a count over the mask; the
\* index == 0 branch calls not_equal, which is not a name of the module
size(cl, m) ==
    IF cl._statsValid THEN [exc |-> "none", val |-> cl._size]
    ELSE IF cl.index # 0
    THEN [exc |-> "none", val |-> Cardinality({p \in 1..Len(m) : m[p] = cl.index})]
    ELSE [exc |-> "NameError", val |-> 0]

\* TrainingClass.calcStatistics(): the object as the call leaves it, and how
\* the call ended.  Every assignment made before a raise stays made.
calcStatistics(cl, im, m) ==
    The({ LET s0 == GaussianStats
              s1 == [s0 EXCEPT !.mean = Some(mc.mean), !.cov = Some(mc.cov), !.numSamples = mc.count]
          IN  IF mc.exc # "none" THEN [exc |-> mc.exc, cl |-> [cl EXCEPT !.stats = Some(s0)]]
              ELSE The({ LET s2 == [s1 EXCEPT !.invCov = Some(iv.val)]
                             ld == logDeterminant(mc.cov)
                             s3 == [s2 EXCEPT !.logDetCov = Some(ld.val)]
                         IN  IF iv.exc # "none"
                             THEN [exc |-> iv.exc, cl |-> [cl EXCEPT !.stats = Some(s1)]]
                             ELSE IF ld.exc # "none"
                             THEN [exc |-> ld.exc, cl |-> [cl EXCEPT !.stats = Some(s2)]]
                             ELSE [exc |-> "none",
                                   cl |-> [cl EXCEPT !.stats = Some(s3), !._size = mc.count,
                                                     !._statsValid = TRUE]]
                         : iv \in {inv(mc.cov)} })
          : mc \in {mean_cov(im, Some(m), Some(cl.index))} })

\* transformImage(matrix, image) on an ndarray: a new array whose pixels are
\* dot(matrix, pixel); numpy.dot raises ValueError when the shapes disagree
transformImage(X, im) ==
    IF Len(im.pix) > 0 /\ Cols(X) # im.bands THEN [exc |-> "ValueError", val |-> None]
    ELSE [exc |-> "none",
          val |-> Some([bands |-> Rows(X), pix |-> [p \in 1..Len(im.pix) |-> DotMV(X, im.pix[p])]])]

\* try: math.log(det(cov)) / except: logDeterminant(cov).  math.log raises
\* ValueError on a value <= 0 and returns nan / inf on nan / inf.
logDetOrFallback(cov) ==
    The({ IF ~IsFinite(d) THEN [exc |-> "none", val |-> <<"nonfinite", <<>>>>]
          ELSE IF d[1] > 0 THEN [exc |-> "none", val |-> <<"logdet", cov>>]
          ELSE logDeterminant(cov)
          : d \in {IF Rows(cov) = Cols(cov) /\ Rows(cov) > 0 THEN Det(cov) ELSE NaN} })

\* TrainingClass.transform(X): the object as the call leaves it, how the call
\* ended, and the array transformImage created (if it got that far).
transform(cl, X, im) ==
    IF cl.stats = None \/ cl.stats[1].mean = None
    THEN [exc |-> "AttributeError", cl |-> cl, image |-> None]
    ELSE IF Cols(X) # Len(cl.stats[1].mean[1])
    THEN [exc |-> "ValueError", cl |-> cl, image |-> None]
    ELSE The({ LET s == cl.stats[1]
                   s1 == [s EXCEPT !.mean = Some(mean2), !.cov = Some(cov2)]
               IN  The({ LET s2 == [s1 EXCEPT !.invCov = Some(iv.val)]
                             s3 == [s2 EXCEPT !.logDetCov = Some(ld.val)]
                         IN  IF iv.exc # "none"
                             THEN [exc |-> iv.exc, cl |-> [cl EXCEPT !.stats = Some(s1)],
                                   image |-> None]
                             ELSE IF ld.exc # "none"
                             THEN [exc |-> ld.exc, cl |-> [cl EXCEPT !.stats = Some(s2)],
                                   image |-> None]
                             ELSE IF ti.exc # "none"
                             THEN [exc |-> ti.exc, image |-> None,
                                   cl |-> [cl EXCEPT !.stats = Some(s3), !.numBands = Rows(X)]]
                             ELSE [exc |-> "none", image |-> ti.val,
                                   cl |-> [cl EXCEPT !.stats = Some(s3), !.numBands = Rows(X)]]
                         : iv \in {inv(cov2)}, ld \in {logDetOrFallback(cov2)},
                           ti \in {transformImage(X, im)} })
               \* dot(X, mean[:, newaxis])[:, 0] and dot(X, dot(cov, transpose(X)))
               : mean2 \in {DotMV(X, cl.stats[1].mean[1])},
                 cov2 \in {Dot(X, Dot(cl.stats[1].cov[1], Transpose(X)))} })

(***************************************************************************)
(* TrainingClassSet: classes maps an index to the id of a TrainingClass.   *)
(***************************************************************************)
\* the dict d with d[k] = v stored
DictPut(d, k, v) == [x \in DOMAIN d \cup {k} |-> IF x = k THEN v ELSE d[x]]

\* addClass that stores the class before it looks for the duplicate
addClass_storeFirst(set, id, cl) ==
    IF cl.index \in DOMAIN set.classes
    THEN [exc |-> "Exception", ts |-> [set EXCEPT !.classes = DictPut(set.classes, cl.index, id)]]
    ELSE [exc |-> "none",
          ts |-> [classes |-> DictPut(set.classes, cl.index, id),
                  numBands |-> IF set.numBands = None \/ set.numBands = Some(0)
                               THEN Some(cl.numBands) ELSE set.numBands]]

\* TrainingClassSet.addClass(cl), cl the object with the given id
addClass(set, id, cl) ==
    IF cl.index \in DOMAIN set.classes
    THEN [exc |-> "Exception", ts |-> set]
    ELSE [exc |-> "none",
          ts |-> [classes |-> DictPut(set.classes, cl.index, id),
                  numBands |-> IF set.numBands = None \/ set.numBands = Some(0)
                               THEN Some(cl.numBands) ELSE set.numBands]]

(***************************************************************************)
(* createTrainingClasses(image, classMask, calcStats, indices)             *)
(***************************************************************************)
RECURSIVE SortedSeq(_)
\* the elements of a set of integers, ascending (the order in which a Python
\* set of small non-negative integers is iterated)
SortedSeq(S) ==
    IF S = {} THEN <<>>
    ELSE LET lo == CHOOSE x \in S : \A y \in S : x <= y
         IN  <<lo>> \o SortedSeq(S \ {lo})

\* the label set with the last element of the array left out
classIndices_short(m) == {m[p] : p \in 1..(Len(m) - 1)}

\* set(classMask.ravel())
classIndices(m) == {m[p] : p \in 1..Len(m)}

\* the test of line 745 left out: label 0 is not skipped
skipLabel_keepZero(i, indices) ==
    indices # None /\ indices[1] # {} /\ i \notin indices[1]

\* the two continue tests of the loop: label 0, or a label outside a non-empty
\* indices (an empty or missing indices is false and filters nothing)
skipLabel(i, indices) ==
    \/ i = 0
    \/ indices # None /\ indices[1] # {} /\ i \notin indices[1]

\* one pass of the loop body for label i: the heap and the set after it, or
\* the exception that ends the call
createStep(i, heap, set, imageId, im, m, calcStats, indices) ==
    IF skipLabel(i, indices) THEN [exc |-> "none", objs |-> heap, ts |-> set]
    ELSE The({ IF cs.exc # "none" THEN [exc |-> cs.exc, objs |-> heap, ts |-> set]
               ELSE The({ IF ac.exc # "none" THEN [exc |-> ac.exc, objs |-> heap, ts |-> set]
                          ELSE [exc |-> "none", objs |-> Append(heap, cs.cl), ts |-> ac.ts]
                          : ac \in {addClass(set, Len(heap) + 1, cs.cl)} })
               : cs \in {IF calcStats
                         THEN calcStatistics(TrainingClass(imageId, im, i, F(1)), im, m)
                         ELSE [exc |-> "none", cl |-> TrainingClass(imageId, im, i, F(1))]} })

RECURSIVE createLoop(_, _, _, _, _, _, _, _, _)
\* the loop over classIndices from its n-th element on; heap is the object
\* heap with the classes created so far, set the TrainingClassSet so far
createLoop(labels, n, heap, set, imageId, im, m, calcStats, indices) ==
    IF n > Len(labels) THEN [exc |-> "none", objs |-> heap, ts |-> set]
    ELSE The({ IF st.exc # "none" THEN st
               ELSE createLoop(labels, n + 1, st.objs, st.ts, imageId, im, m, calcStats, indices)
               : st \in {createStep(labels[n], heap, set, imageId, im, m, calcStats, indices)} })

\* the set returned and the heap holding its classes, or the exception raised
createTrainingClasses(heap, imageId, im, m, calcStats, indices) ==
    The({ createLoop(SortedSeq(labelSet), 1, heap, NoSet, imageId, im, m, calcStats, indices)
          : labelSet \in {classIndices(m)} })

(***************************************************************************)
(* Calls of createTrainingClasses on every label array over ImgA.          *)
(***************************************************************************)
IndexFilters == {None} \cup {Some(S) : S \in SUBSET Labels}

CreateInit ==
    /\ images = <<ImgA>>
    /\ mask \in LabelArrays(ImgA)
    /\ objs = <<>>
    /\ ts = NoSet
    /\ \E calcStats \in BOOLEAN : \E indices \in IndexFilters :
         ret = [op |-> "args", calcStats |-> calcStats, indices |-> indices]

CreateCall ==
    /\ ret.op = "args"
    /\ \E r \in {createTrainingClasses(objs, 1, images[1], mask, ret.calcStats, ret.indices)} :
           /\ ret' = [op |-> "createTrainingClasses", calcStats |-> ret.calcStats,
                      indices |-> ret.indices, exc |-> r.exc]
           /\ objs' = IF r.exc = "none" THEN r.objs ELSE objs
           /\ ts' = IF r.exc = "none" THEN r.ts ELSE ts
    /\ UNCHANGED <<images, mask>>

SpecCreate == CreateInit /\ [][CreateCall]_vars

\* the distinct nonzero labels of a label array
NonzeroLabels(m) == {m[p] : p \in 1..Len(m)} \ {0}

\* the set holds one class per key, each stored under its own index
KeyedByIndex(set, heap) ==
    /\ \A k \in DOMAIN set.classes :
         set.classes[k] \in 1..Len(heap) /\ heap[set.classes[k]].index = k
    /\ \A j, k \in DOMAIN set.classes : set.classes[j] = set.classes[k] => j = k

\* C3: for every label array, createTrainingClasses without an index filter
\* returns a set whose keys are exactly the distinct nonzero labels of the
\* array, one class per label, and never a class with index 0; without
\* calcStats the call always returns.
C3_KeysAreNonzeroLabels ==
    (ret.op = "createTrainingClasses" /\ ret.indices = None)
        => /\ ~ret.calcStats => ret.exc = "none"
           /\ ret.exc = "none" =>
                /\ DOMAIN ts.classes = NonzeroLabels(mask)
                /\ 0 \notin DOMAIN ts.classes
                /\ KeyedByIndex(ts, objs)
                /\ Len(objs) = Cardinality(NonzeroLabels(mask))

\* the labels {0, 1, 1, 2} give exactly the classes 1 and 2
C3_Witness ==
    /\ ret.op = "createTrainingClasses" /\ ret.indices = None /\ ret.exc = "none"
    /\ mask = <<0, 1, 1, 2>>
    /\ DOMAIN ts.classes = {1, 2} /\ Len(objs) = 2

(***************************************************************************)
(* The TrainingClassSet state machine: classes are constructed, added to   *)
(* the set ts, and ts is rebound to the result of createTrainingClasses.   *)
(***************************************************************************)
\* the label arrays of the state machines: {0,1,1,2} (class 2 has one sample),
\* {1,2,1,2} (both classes have an invertible covariance) and {1,1,2,2} (the
\* two samples of class 2 are equal, its covariance is singular)
SetMasks == {<<0, 1, 1, 2>>, <<1, 2, 1, 2>>, <<1, 1, 2, 2>>}

SetInit ==
    /\ images = <<ImgA>>
    /\ mask \in SetMasks
    /\ objs = <<>>
    /\ ts = NoSet
    /\ ret = [op |-> "init"]

\* cl = TrainingClass(image, mask, index)
NewClass(index) ==
    /\ Len(objs) < MaxObjs
    /\ objs' = Append(objs, TrainingClass(1, images[1], index, F(1)))
    /\ ret' = [op |-> "TrainingClass", obj |-> Len(objs) + 1, exc |-> "none"]
    /\ UNCHANGED <<images, mask, ts>>

\* ts.addClass(cl), cl the object o
AddClass(o) ==
    /\ \E r \in {addClass(ts, o, objs[o])} :
         /\ ts' = r.ts
         /\ ret' = [op |-> "addClass", obj |-> o, exc |-> r.exc, before |-> ts]
    /\ UNCHANGED <<images, mask, objs>>

\* ts = createTrainingClasses(image, mask, calcStats, indices)
CreateClasses(calcStats, indices) ==
    /\ \E r \in {createTrainingClasses(objs, 1, images[1], mask, calcStats, indices)} :
         /\ Len(r.objs) <= MaxObjs
         /\ objs' = IF r.exc = "none" THEN r.objs ELSE objs
         /\ ts' = IF r.exc = "none" THEN r.ts ELSE ts
         /\ ret' = [op |-> "createTrainingClasses", exc |-> r.exc]
    /\ UNCHANGED <<images, mask>>

SetNext ==
    \/ \E index \in Labels : NewClass(index)
    \/ \E o \in 1..Len(objs) : AddClass(o)
    \/ \E calcStats \in BOOLEAN : \E indices \in IndexFilters : CreateClasses(calcStats, indices)

SpecSet == SetInit /\ [][SetNext]_vars

\* C1: addClass(cl) called when cl.index is already a key of the set fails
\* with an error and leaves the set unchanged: the same keys, the same class
\* bound to every key, the same numBands as before the call.
C1_DuplicateRejected ==
    (ret.op = "addClass" /\ objs[ret.obj].index \in DOMAIN ret.before.classes)
        => (ret.exc = "Exception" /\ ts = ret.before)

\* a second object with the index of a class of the set was offered and refused
C1_Witness ==
    /\ ret.op = "addClass" /\ ret.exc = "Exception"
    /\ objs[ret.obj].index \in DOMAIN ts.classes
    /\ ts.classes[objs[ret.obj].index] # ret.obj
    /\ ts.numBands = Some(1)

\* C4 (as stated): in every state reachable by TrainingClass construction,
\* addClass and createTrainingClasses, the set holds no two classes with the
\* same index and holds no class with index 0.
C4_NoDuplicateNoZero ==
    KeyedByIndex(ts, objs) /\ 0 \notin DOMAIN ts.classes

\* C4 (amended): the set holds no two classes with the same index (every class
\* is stored under its own index), and a set as createTrainingClasses returns
\* it holds no class with index 0; addClass accepts a class with index 0.
C4_NoDuplicateZeroOnlyAdded ==
    /\ KeyedByIndex(ts, objs)
    /\ (ret.op = "createTrainingClasses" /\ ret.exc = "none") => 0 \notin DOMAIN ts.classes
    /\ (ret.op = "addClass" /\ ret.exc = "none") => objs[ret.obj].index \in DOMAIN ts.classes

\* a set of two classes built by createTrainingClasses over labels holding 0
C4_Witness ==
    /\ ret.op = "createTrainingClasses" /\ ret.exc = "none"
    /\ 0 \in {mask[p] : p \in 1..Len(mask)}
    /\ Cardinality(DOMAIN ts.classes) = 2
    /\ ts.classes[1] # ts.classes[2]


(***************************************************************************)
(* The TrainingClass state machine: one class over the image ImgA and the  *)
(* shared label array; its statistics are computed, marked valid or        *)
(* invalid, counted and transformed while the label array changes.         *)
(***************************************************************************)
\* the transform arrays X: 1x1 invertible (a reflection, so that repeated
\* transforms stay in a finite set of values), 1x1 zero, 2x1 and 1x2
TransformMatrices ==
    {<<<<F(-1)>>>>, <<<<F(0)>>>>, <<<<F(1)>>, <<F(1)>>>>, <<<<F(1), F(0)>>>>}

\* the label arrays of the class: those of the set, and one under which class
\* 1 has three samples and class 2 none
ClassMasks == SetMasks \cup {<<1, 1, 1, 0>>}

\* cl = TrainingClass(image, mask, index)
ClassInit ==
    /\ images = <<ImgA>>
    /\ mask \in ClassMasks
    /\ \E index \in Labels : objs = <<TrainingClass(1, ImgA, index, F(1))>>
    /\ ts = NoSet
    /\ ret = [op |-> "TrainingClass", obj |-> 1, exc |-> "none"]

\* cl.calcStatistics(), cl the object o
CalcStatistics(o) ==
    /\ \E r \in {calcStatistics(objs[o], images[objs[o].image], mask)} :
         /\ objs' = [objs EXCEPT ![o] = r.cl]
         /\ ret' = [op |-> "calcStatistics", obj |-> o, exc |-> r.exc]
    /\ UNCHANGED <<images, mask, ts>>

\* cl.statsValid(tf)
StatsValid(o, tf) ==
    /\ objs' = [objs EXCEPT ![o] = statsValid(objs[o], tf)]
    /\ ret' = [op |-> "statsValid", obj |-> o, exc |-> "none"]
    /\ UNCHANGED <<images, mask, ts>>

\* cl.size(): no attribute is assigned
Size(o) ==
    /\ \E r \in {size(objs[o], mask)} :
         ret' = [op |-> "size", obj |-> o, exc |-> r.exc, val |-> r.val, before |-> objs[o]]
    /\ UNCHANGED <<images, mask, objs, ts>>

\* transform that writes the transformed pixels into the array the class holds
Transform_inPlace(o, X) ==
    /\ \E r \in {transform(objs[o], X, images[objs[o].image])} :
         /\ images' = IF r.image # None THEN [images EXCEPT ![objs[o].image] = r.image[1]]
                      ELSE images
         /\ objs' = [objs EXCEPT ![o] = r.cl]
         /\ ret' = [op |-> "transform", obj |-> o, X |-> X, exc |-> r.exc, before |-> objs[o]]
    /\ UNCHANGED <<mask, ts>>

\* cl.transform(X); the array transformImage returns is a new array of the heap
Transform(o, X) ==
    /\ \E r \in {transform(objs[o], X, images[objs[o].image])} :
         /\ r.image # None => Len(images) < MaxImages
         /\ images' = IF r.image # None THEN Append(images, r.image[1]) ELSE images
         /\ objs' = [objs EXCEPT ![o] = IF r.image # None
                                        THEN [r.cl EXCEPT !.image = Len(images) + 1]
                                        ELSE r.cl]
         /\ ret' = [op |-> "transform", obj |-> o, X |-> X, exc |-> r.exc, before |-> objs[o]]
    /\ UNCHANGED <<mask, ts>>

\* mask[...] = m: the owner of the label array rewrites it in place
SetMask(m) ==
    /\ m # mask
    /\ mask' = m
    /\ ret' = [op |-> "setMask"]
    /\ UNCHANGED <<images, objs, ts>>

ClassNext ==
    \/ \E o \in 1..Len(objs) : CalcStatistics(o)
    \/ \E o \in 1..Len(objs) : \E tf \in BOOLEAN : StatsValid(o, tf)
    \/ \E o \in 1..Len(objs) : Size(o)
    \/ \E o \in 1..Len(objs) : \E X \in TransformMatrices : Transform(o, X)
    \/ \E m \in ClassMasks : SetMask(m)

SpecClass == ClassInit /\ [][ClassNext]_vars

\* the inversion of the re-projected covariance X*cov*X^T of the class cl fails
InversionFails(cl, X) ==
    /\ cl.stats # None /\ cl.stats[1].mean # None
    /\ Cols(X) = Len(cl.stats[1].mean[1])
    /\ inv(Dot(X, Dot(cl.stats[1].cov[1], Transpose(X)))).exc # "none"

\* C2: transform(X) is all-or-nothing: when the inversion of the re-projected
\* covariance fails, stats (mean, cov, invCov, logDetCov), numBands and image
\* of the class are what they were before the call; when the call returns,
\* mean and cov are the re-projected values and numBands is the row count of X.
C2_TransformAllOrNothing ==
    ret.op = "transform" =>
        /\ InversionFails(ret.before, ret.X) =>
               (ret.exc = "LinAlgError" /\ objs[ret.obj] = ret.before)
        /\ ret.exc = "none" =>
               /\ objs[ret.obj].stats[1].mean = Some(DotMV(ret.X, ret.before.stats[1].mean[1]))
               /\ objs[ret.obj].stats[1].cov =
                      Some(Dot(ret.X, Dot(ret.before.stats[1].cov[1], Transpose(ret.X))))
               /\ objs[ret.obj].numBands = Rows(ret.X)
               /\ objs[ret.obj].image # ret.before.image

\* C5: transform(X) with an X whose column count differs from the numBands of
\* the class fails, and stats, numBands and image are unchanged after the call.
C5_MismatchRejectedUnchanged ==
    (ret.op = "transform" /\ Cols(ret.X) # ret.before.numBands)
        => (ret.exc # "none" /\ objs[ret.obj] = ret.before)

\* the number of label-array elements the class selects: equal to its index,
\* or nonzero when its index is 0
SelectedCount(cl, m) ==
    IF cl.index # 0 THEN Cardinality({p \in 1..Len(m) : m[p] = cl.index})
    ELSE Cardinality({p \in 1..Len(m) : m[p] # 0})

\* C7: size() returns the cached count when the statistics are marked valid,
\* else the number of label-array elements the class currently selects (equal
\* to index, or nonzero when index is 0), and leaves the class unchanged.
C7_SizeCachedOrCounted ==
    ret.op = "size" =>
        /\ ret.exc = "none"
        /\ ret.val = IF ret.before._statsValid THEN ret.before._size
                     ELSE SelectedCount(ret.before, mask)
        /\ objs[ret.obj] = ret.before

(***************************************************************************)
(* linearDiscriminant(classes)                                             *)
(***************************************************************************)
\* the classes of the set in the order self.classes.values() yields them (a
\* dict of small non-negative integer keys is walked in ascending key order)
classValues(set) ==
    The({ [n \in 1..Len(keys) |-> set.classes[keys[n]]] : keys \in {SortedSeq(DOMAIN set.classes)} })

\* numpy's broadcasting of an operand of an in-place operation on a length-B
\* vector / BxB array: the same shape is taken as it is, a single element is
\* repeated, anything else raises ValueError
FitsV(v, B) == Len(v) = B \/ Len(v) = 1
BroadcastV(v, B) == IF Len(v) = B THEN v ELSE [i \in 1..B |-> v[1]]
FitsM(a, B) == (Rows(a) = B /\ Cols(a) = B) \/ (Rows(a) = 1 /\ Cols(a) \in {1, B})
BroadcastM(a, B) ==
    IF Rows(a) = B /\ Cols(a) = B THEN a
    ELSE [i \in 1..B |-> [j \in 1..B |-> IF Cols(a) = B THEN a[1][j] ELSE a[1][1]]]

RECURSIVE ldaMeanLoop(_, _, _, _, _, _, _)
\* the first loop over the classes, from the n-th class on: N and mean so far,
\* the heap with the statistics calcStatistics has stored so far
ldaMeanLoop(order, n, heap, N, mean, imgs, m) ==
    IF n > Len(order) THEN [exc |-> "none", objs |-> heap, N |-> N, mean |-> mean]
    ELSE The({
        IF sz.exc # "none" THEN [exc |-> sz.exc, objs |-> heap, N |-> N, mean |-> mean0]
        ELSE The({
            IF cs.exc # "none"
            THEN [exc |-> cs.exc, objs |-> [heap EXCEPT ![order[n]] = cs.cl], N |-> N, mean |-> mean0]
            ELSE The({
                IF sz2.exc # "none"
                THEN [exc |-> sz2.exc, objs |-> heap2, N |-> N, mean |-> mean0]
                ELSE IF cs.cl.stats[1].mean = None
                THEN [exc |-> "AttributeError", objs |-> heap2, N |-> N, mean |-> mean0]
                ELSE IF ~FitsV(cs.cl.stats[1].mean[1], Len(mean0[1]))
                THEN [exc |-> "ValueError", objs |-> heap2, N |-> N, mean |-> mean0]
                ELSE ldaMeanLoop(order, n + 1, heap2, N + sz.val,
                                 Some(VAdd(mean0[1],
                                           BroadcastV(VScale(F(sz2.val), cs.cl.stats[1].mean[1]),
                                                      Len(mean0[1])))),
                                 imgs, m)
                : sz2 \in {size(cs.cl, m)}, heap2 \in {[heap EXCEPT ![order[n]] = cs.cl]} })
            \* if not hasattr(s, 'stats'): s.calcStatistics()
            : cs \in {IF s.stats = None THEN calcStatistics(s, imgs[s.image], m)
                      ELSE [exc |-> "none", cl |-> s]} })
        : s \in {heap[order[n]]}, sz \in {size(heap[order[n]], m)},
          mean0 \in {IF mean = None THEN Some(VZeros(heap[order[n]].numBands)) ELSE mean} })

RECURSIVE ldaCovLoop(_, _, _, _, _, _, _)
\* the second loop over the classes: cov_w and cov_b so far
ldaCovLoop(order, n, heap, mean, cov_w, cov_b, m) ==
    IF n > Len(order) THEN [exc |-> "none", cov_w |-> cov_w, cov_b |-> cov_b]
    ELSE The({
        IF sz.exc # "none" THEN [exc |-> sz.exc, cov_w |-> cov_w, cov_b |-> cov_b]
        ELSE IF ~FitsM(s.stats[1].cov[1], B) \/ ~FitsV(s.stats[1].mean[1], B)
        THEN [exc |-> "ValueError", cov_w |-> cov_w, cov_b |-> cov_b]
        ELSE The({ ldaCovLoop(order, n + 1, heap, mean,
                              MAdd(cov_w, BroadcastM(MScale(F(sz.val - 1), s.stats[1].cov[1]), B)),
                              MAdd(cov_b, MScale(F(sz.val), Outer(d, d))), m)
                   : d \in {VSub(BroadcastV(s.stats[1].mean[1], B), mean)} })
        : s \in {heap[order[n]]}, sz \in {size(heap[order[n]], m)}, B \in {Len(mean)} })

\* every eigenvector kept
cropRank_all(s, rank) == s

\* vals[:rank] and transpose(vecs)[:rank, :]
cropRank(s, rank) == Prefix(s, rank)

\* vecs[i, :] /= math.sqrt(d[i].real), d the diagonal of vecs * cov_w * vecs^T
\* (positive for the eigenvectors of an invertible cov_w); kept symbolic
normalise(vecs) == [i \in 1..Len(vecs) |-> [j \in 1..Len(vecs[i]) |-> <<"unit", vecs[i][j]>>]]

\* (L, V, Cb, Cw) = linearDiscriminant(classes): the tuple returned or the
\* exception raised, and the heap as the calls of calcStatistics leave it
linearDiscriminant(heap, set, imgs, m) ==
    The({ The({
        IF p1.exc # "none"
        THEN [exc |-> p1.exc, objs |-> p1.objs, L |-> <<>>, V |-> <<>>, Cb |-> <<>>, Cw |-> <<>>]
        \* no class: mean is still None when it is divided
        ELSE IF p1.mean = None
        THEN [exc |-> "TypeError", objs |-> p1.objs, L |-> <<>>, V |-> <<>>, Cb |-> <<>>, Cw |-> <<>>]
        ELSE The({
            IF p2.exc # "none"
            THEN [exc |-> p2.exc, objs |-> p1.objs, L |-> <<>>, V |-> <<>>, Cb |-> <<>>, Cw |-> <<>>]
            ELSE The({ The({
                IF cwInv.exc # "none"
                THEN [exc |-> cwInv.exc, objs |-> p1.objs, L |-> <<>>, V |-> <<>>, Cb |-> <<>>, Cw |-> <<>>]
                ELSE The({
                    IF e.exc # "none"
                    THEN [exc |-> e.exc, objs |-> p1.objs, L |-> <<>>, V |-> <<>>, Cb |-> <<>>, Cw |-> <<>>]
                    ELSE [exc |-> "none", objs |-> p1.objs,
                          L |-> cropRank(e.vals, rank),
                          V |-> normalise(cropRank(Transpose(e.vecs), rank)),
                          Cb |-> cov_b, Cw |-> cov_w]
                    : e \in {eig(Dot(cwInv.val, cov_b))} })
                : cwInv \in {inv(cov_w)} })
                : cov_w \in {MDivS(p2.cov_w, F(p1.N))}, cov_b \in {MDivS(p2.cov_b, F(p1.N))} })
            : p2 \in {ldaCovLoop(order, 1, p1.objs, VDivS(p1.mean[1], F(p1.N)),
                                 MZeros(Len(p1.mean[1]), Len(p1.mean[1])),
                                 MZeros(Len(p1.mean[1]), Len(p1.mean[1])), m)} })
        : p1 \in {ldaMeanLoop(order, 1, heap, 0, None, imgs, m)} })
        : order \in {classValues(set)}, rank \in {Cardinality(DOMAIN set.classes) - 1} })

(***************************************************************************)
(* Calls of linearDiscriminant on the sets createTrainingClasses builds    *)
(* over a 1-band and a 2-band image of six pixels.                         *)
(***************************************************************************)
ImgL == [bands |-> 1, pix |-> <<<<F(1)>>, <<F(2)>>, <<F(4)>>, <<F(5)>>, <<F(7)>>, <<F(9)>>>>]
ImgM == [bands |-> 2, pix |-> <<<<F(0), F(0)>>, <<F(1), F(0)>>, <<F(0), F(1)>>,
                               <<F(1), F(1)>>, <<F(2), F(1)>>, <<F(1), F(2)>>>>]

\* label arrays of one, two and three classes, and one of a single-sample class
LdaMasks ==
    {<<1, 1, 1, 1, 1, 1>>, <<1, 1, 1, 2, 2, 2>>, <<1, 1, 2, 2, 3, 3>>, <<0, 1, 1, 1, 1, 2>>}

LdaInit ==
    /\ \E im \in {ImgL, ImgM} : images = <<im>>
    /\ mask \in LdaMasks
    /\ objs = <<>>
    /\ ts = NoSet
    /\ ret = [op |-> "init"]

\* linearDiscriminant(ts)
LinearDiscriminant ==
    /\ \E r \in {linearDiscriminant(objs, ts, images, mask)} :
         /\ objs' = r.objs
         /\ ret' = [op |-> "linearDiscriminant", exc |-> r.exc,
                    L |-> r.L, V |-> r.V, Cb |-> r.Cb, Cw |-> r.Cw]
    /\ UNCHANGED <<images, mask, ts>>

LdaNext ==
    \/ \E calcStats \in BOOLEAN : \E indices \in IndexFilters : CreateClasses(calcStats, indices)
    \/ LinearDiscriminant

SpecLDA == LdaInit /\ [][LdaNext]_vars

ImgFile == [bands |-> ImgA.bands, pix |-> ImgA.pix, fileName |-> "a.lan"]

\* pickle.dump(value, fp)
pickleDump(stream, field, value) == Append(stream, [field |-> field, val |-> value])

\* TrainingClass.dump(fp): the stream as the call leaves it and how the call
\* ended.  self.image.fileName is an AttributeError on an ndarray; DumpArray
\* (line 620) is not a name of the module, nor is it imported by dump, so the
\* call raises NameError once the four pickled items are written.
dump(cl, im, stream) ==
    IF "fileName" \notin DOMAIN im THEN [exc |-> "AttributeError", stream |-> stream]
    ELSE [exc |-> "NameError",
          stream |-> pickleDump(pickleDump(pickleDump(pickleDump(stream,
                         "fileName", im.fileName), "index", cl.index),
                         "_size", cl._size), "classProb", cl.classProb)]

\* TrainingClass.load(fp): the object as the call leaves it and how the call
\* ended.  pickle.load raises EOFError at the end of the stream; LoadArray
\* (line 641) is not a name of the module, so a stream of four or more items
\* ends the call with NameError after image, index, _size and classProb are
\* assigned.  The loaded image is a file name, not an array of the heap: the
\* attribute image is 0 and the name is kept in fileName.
load(cl, stream) ==
    The({ IF Len(stream) < 1 THEN [exc |-> "EOFError", cl |-> c0]
          ELSE The({ IF Len(stream) < 2 THEN [exc |-> "EOFError", cl |-> c1]
                     ELSE The({ IF Len(stream) < 3 THEN [exc |-> "EOFError", cl |-> c2]
                                ELSE The({ IF Len(stream) < 4 THEN [exc |-> "EOFError", cl |-> c3]
                                           ELSE [exc |-> "NameError",
                                                 cl |-> [c3 EXCEPT !.classProb = stream[4].val]]
                                           : c3 \in {[c2 EXCEPT !._size = stream[3].val]} })
                                : c2 \in {[c1 EXCEPT !.index = stream[2].val]} })
                     : c1 \in {[image |-> 0, fileName |-> stream[1].val, numBands |-> c0.numBands,
                                index |-> c0.index, classProb |-> c0.classProb,
                                _statsValid |-> c0._statsValid, _size |-> c0._size,
                                stats |-> c0.stats]} })
          : c0 \in {[cl EXCEPT !.stats = Some(GaussianStats)]} })

\* one class over an ndarray or over an image opened from a file
DumpInit ==
    /\ \E im \in {ImgA, ImgFile} : images = <<im>>
    /\ mask \in ClassMasks
    /\ \E index \in Labels : objs = <<TrainingClass(1, images[1], index, F(1))>>
    /\ ts = NoSet
    /\ ret = [op |-> "TrainingClass", obj |-> 1, exc |-> "none"]

\* cl.dump(fp) on a new stream; a class that was loaded has a file name for an
\* image, and a str has no fileName
Dump(o) ==
    /\ \E r \in {IF objs[o].image = 0 THEN [exc |-> "AttributeError", stream |-> <<>>]
                 ELSE dump(objs[o], images[objs[o].image], <<>>)} :
         ret' = [op |-> "dump", obj |-> o, exc |-> r.exc, stream |-> r.stream,
                 dumped |-> objs[o]]
    /\ UNCHANGED <<images, mask, objs, ts>>

\* cl.load(fp) on the stream the last dump wrote
Load(o) ==
    /\ ret.op = "dump"
    /\ \E r \in {load(objs[o], ret.stream)} :
         /\ objs' = [objs EXCEPT ![o] = r.cl]
         /\ ret' = [op |-> "load", obj |-> o, exc |-> r.exc, dumped |-> ret.dumped]
    /\ UNCHANGED <<images, mask, ts>>

\* calcStatistics of a class whose image is an array of the heap (a loaded
\* class holds a file name: iterating it is not modelled)
DumpCalcStatistics(o) == objs[o].image # 0 /\ CalcStatistics(o)

DumpNext ==
    \/ \E o \in 1..Len(objs) : DumpCalcStatistics(o)
    \/ \E o \in 1..Len(objs) : Dump(o)
    \/ \E o \in 1..Len(objs) : Load(o)

SpecDump == DumpInit /\ [][DumpNext]_vars

\* the class has the statistics a successful calcStatistics leaves
StatsComputed(cl) ==
    /\ cl.stats # None /\ cl._statsValid
    /\ cl.stats[1].mean # None /\ cl.stats[1].cov # None
    /\ cl.stats[1].invCov # None /\ cl.stats[1].logDetCov # None

\* the order of the items of a dumped class
DumpOrder ==
    <<"fileName", "index", "_size", "classProb", "mask", "mean", "cov", "invCov", "logDetCov">>

\* C11: dump of a class with computed statistics over an image opened from a
\* file writes source identifier, index, cached sample count, class prior,
\* mask, mean, cov, invCov, logDetCov in that order, and a class loaded from
\* that stream has the index, classProb, mean, cov, invCov, logDetCov and
\* number of samples of the dumped class.
C11_DumpLoadRoundTrip ==
    /\ (ret.op = "dump" /\ StatsComputed(ret.dumped) /\ "fileName" \in DOMAIN images[1])
           => /\ ret.exc = "none"
              /\ [i \in 1..Len(ret.stream) |-> ret.stream[i].field] = DumpOrder
    /\ (ret.op = "load" /\ StatsComputed(ret.dumped) /\ "fileName" \in DOMAIN images[1])
           => /\ ret.exc = "none"
              /\ objs[ret.obj].index = ret.dumped.index
              /\ objs[ret.obj].classProb = ret.dumped.classProb
              /\ objs[ret.obj].stats[1].mean = ret.dumped.stats[1].mean
              /\ objs[ret.obj].stats[1].cov = ret.dumped.stats[1].cov
              /\ objs[ret.obj].stats[1].invCov = ret.dumped.stats[1].invCov
              /\ objs[ret.obj].stats[1].logDetCov = ret.dumped.stats[1].logDetCov
              /\ objs[ret.obj].stats[1].numSamples = ret.dumped.stats[1].numSamples

(***************************************************************************)
(* Two classes over one image: each has its statistics computed and is     *)
(* transformed while the other one holds the same array.                   *)
(***************************************************************************)
\* c1 = TrainingClass(image, mask, i); c2 = TrainingClass(image, mask, j)
SharedInit ==
    /\ images = <<ImgA>>
    /\ mask \in ClassMasks
    /\ \E i \in Labels : \E j \in Labels :
         objs = <<TrainingClass(1, ImgA, i, F(1)), TrainingClass(1, ImgA, j, F(1))>>
    /\ ts = NoSet
    /\ ret = [op |-> "TrainingClass", obj |-> 2, exc |-> "none"]

SharedNext ==
    \/ \E o \in 1..Len(objs) : CalcStatistics(o)
    \/ \E o \in 1..Len(objs) : \E X \in TransformMatrices : Transform(o, X)

SpecShared == SharedInit /\ [][SharedNext]_vars

\* C12: when several classes share one image, transform(X) on one of them
\* leaves every array that existed before the call as it was (the shared
\* image is not written) and leaves image, stats and numBands of every other
\* class unchanged; when the call returns, the class holds a newly created
\* array of Rows(X) bands that no other class holds.
C12_TransformLeavesSharedImage ==
    [][ret'.op = "transform" =>
          /\ \A i \in 1..Len(images) : i \in 1..Len(images') /\ images'[i] = images[i]
          /\ \A p \in 1..Len(objs) : p # ret'.obj => objs'[p] = objs[p]
          /\ ret'.exc = "none" =>
               /\ objs'[ret'.obj].image \notin 1..Len(images)
               /\ objs'[ret'.obj].image \in 1..Len(images')
               /\ images'[objs'[ret'.obj].image].bands = Rows(ret'.X)
               /\ \A p \in 1..Len(objs) : p # ret'.obj => objs'[p].image # objs'[ret'.obj].image
          /\ ret'.exc # "none" => images' = images]_vars

\* one of two classes with statistics over the same array was transformed:
\* it holds the new array, the other one still the shared one
C12_Witness ==
    /\ ret.op = "transform" /\ ret.exc = "none" /\ Len(objs) = 2
    /\ \A p \in 1..2 : objs[p].stats # None /\ objs[p].stats[1].invCov # None
    /\ ret.before.image = 1 /\ objs[ret.obj].image = 2
    /\ \E p \in 1..2 : p # ret.obj /\ objs[p].image = 1
    /\ images[1] = ImgA /\ images[2] # ImgA

\* C13: whenever a collection of allowed indices is given to
\* createTrainingClasses (an empty one included), the keys of the returned set
\* are a subset of it: no class is created for a label outside the collection.
C13_KeysWithinIndices ==
    (ret.op = "createTrainingClasses" /\ ret.indices # None /\ ret.exc = "none")
        => DOMAIN ts.classes \subseteq ret.indices[1]

\* the pixels the documented selection of (image, mask, index) holds, in order
SelectedPixels(im, m, index) ==
    IF m = None THEN im.pix
    ELSE IF index = None
    THEN Compress([p \in 1..Len(m[1]) |-> m[1][p] # 0], im.pix, Len(m[1]))
    ELSE Compress([p \in 1..Len(m[1]) |-> m[1][p] = index[1]], im.pix, Len(m[1]))

RECURSIVE RefSum(_, _, _, _)
\* sum((x - mean)(x - mean)^T) over the first n vectors
RefSum(xs, n, mean, B) ==
    IF n = 0 THEN MZeros(B, B)
    ELSE The({ MAdd(RefSum(xs, n - 1, mean, B), Outer(d, d)) : d \in {VSub(xs[n], mean)} })

\* the elementwise average and the Bessel-corrected covariance of the vectors
RefMean(xs, B) == VDivS(SumX(xs, Len(xs), B), F(Len(xs)))
RefCov(xs, B) == MDivS(RefSum(xs, Len(xs), RefMean(xs, B), B), F(Len(xs) - 1))

\* C14: for a sample source yielding N >= 2 vectors, mean_cov returns count = N,
\* the elementwise average of the vectors as mean, and a symmetric covariance
\* equal to sum((x - mean)(x - mean)^T) / (N - 1).
C14_MeanCovReference ==
    (ret.op = "mean_cov" /\ ret.out.exc = "none"
       /\ NumSelected(ret.image, ret.mask, ret.index) >= 2)
        => The({ /\ ret.out.count = Len(xs)
                 /\ ret.out.mean = RefMean(xs, ret.image.bands)
                 /\ ret.out.cov = RefCov(xs, ret.image.bands)
                 /\ ret.out.cov = Transpose(ret.out.cov)
                 : xs \in {SelectedPixels(ret.image, ret.mask, ret.index)} })

(***************************************************************************)
(* Calls of iterator(image, mask, index).                                  *)
(***************************************************************************)
IterCall ==
    /\ ret.op = "args"
    /\ ret' = [op |-> "iterator", image |-> ret.image, mask |-> ret.mask, index |-> ret.index,
               out |-> iterator(ret.image, ret.mask, ret.index)]
    /\ UNCHANGED <<images, mask, objs, ts>>

SpecIter == MeanCovInit /\ [][IterCall]_vars

\* C15: for every mask and every defined index (index 0 included) the iterator
\* built from (image, mask, index) yields exactly the pixels image[i,j] with
\* mask[i,j] == index and reports their number as its element count; with the
\* mask alone it yields exactly the pixels with a nonzero mask value.
C15_IteratorSelection ==
    (ret.op = "iterator" /\ ret.mask # None)
        => /\ ret.out.exc = "none"
           /\ ret.out.samples = SelectedPixels(ret.image, ret.mask, ret.index)
           /\ ret.out.numElements = Len(ret.out.samples)

(***************************************************************************)
(* linearDiscriminant on a set whose classes have their statistics         *)
(* computed and marked valid or invalid while the label array changes.     *)
(***************************************************************************)
\* ts = createTrainingClasses(image, mask, calcStats)
StaleInit ==
    /\ images = <<ImgA>>
    /\ mask \in ClassMasks
    /\ \E calcStats \in BOOLEAN :
         \E r \in {createTrainingClasses(<<>>, 1, ImgA, mask, calcStats, None)} :
           r.exc = "none" /\ objs = r.objs /\ ts = r.ts
    /\ ret = [op |-> "createTrainingClasses", exc |-> "none"]

StaleNext ==
    \/ \E o \in 1..Len(objs) : CalcStatistics(o)
    \/ \E o \in 1..Len(objs) : \E tf \in BOOLEAN : StatsValid(o, tf)
    \/ \E m \in ClassMasks : SetMask(m)
    \/ LinearDiscriminant

SpecStale == StaleInit /\ [][StaleNext]_vars

\* C16: in every call of linearDiscriminant that reads the statistics of the
\* classes, each class of the set whose statistics are absent or marked
\* invalid has calcStatistics run first: the call leaves it with the
\* statistics of its current samples, so the size and the statistics used for
\* it come from the same version of the label array.
C16_InvalidStatsRecomputed ==
    [][(ret'.op = "linearDiscriminant" /\ ret'.exc = "none") =>
          \A k \in DOMAIN ts.classes :
              (objs[ts.classes[k]].stats = None \/ ~objs[ts.classes[k]]._statsValid)
                  => objs'[ts.classes[k]] =
                         calcStatistics(objs[ts.classes[k]],
                                        images[objs[ts.classes[k]].image], mask).cl]_vars

\* the covariance of the samples of the class can be computed and has no inverse
SingularCovariance(cl, im, m) ==
    The({ mc.exc = "none" /\ inv(mc.cov).exc # "none"
          : mc \in {mean_cov(im, Some(m), Some(cl.index))} })

\* C17: when calcStatistics fails because the covariance of the class is not
\* invertible, the error reaches the caller and the class is left as it was:
\* stats (present or absent), the validity flag and the cached size are those
\* before the call, and no stats object without invCov or logDetCov is left.
C17_FailedCalcLeavesStats ==
    [][(ret'.op = "calcStatistics"
          /\ SingularCovariance(objs[ret'.obj], images[objs[ret'.obj].image], mask)) =>
          /\ ret'.exc = "LinAlgError"
          /\ objs'[ret'.obj] = objs[ret'.obj]
          /\ objs'[ret'.obj].stats # None =>
                 /\ objs'[ret'.obj].stats[1].invCov # None
                 /\ objs'[ret'.obj].stats[1].logDetCov # None]_vars

(***************************************************************************)
(* TrainingClassSet.transform(X)                                           *)
(***************************************************************************)
RECURSIVE setTransformLoop(_, _, _, _, _)
\* for cl in self.classes.values(): cl.transform(X), from the n-th class on;
\* every class transformed holds a new array of the heap
setTransformLoop(order, n, heap, imgs, X) ==
    IF n > Len(order) THEN [exc |-> "none", objs |-> heap, images |-> imgs]
    ELSE The({
        IF r.exc # "none"
        THEN [exc |-> r.exc, objs |-> [heap EXCEPT ![order[n]] = r.cl], images |-> imgs]
        ELSE setTransformLoop(order, n + 1,
                              [heap EXCEPT ![order[n]] = [r.cl EXCEPT !.image = Len(imgs) + 1]],
                              Append(imgs, r.image[1]), X)
        : r \in {transform(heap[order[n]], X, imgs[heap[order[n]].image])} })

\* TrainingClassSet.transform(X): the set, the classes and the arrays as the
\* call leaves them; self.numBands is assigned after the loop
setTransform(set, heap, imgs, X) ==
    The({ [exc |-> r.exc, objs |-> r.objs, images |-> r.images,
           ts |-> IF r.exc = "none" THEN [set EXCEPT !.numBands = Some(Rows(X))] ELSE set]
          : r \in {setTransformLoop(classValues(set), 1, heap, imgs, X)} })

\* the transform arrays of the set: 1x2 and the 2x2 identity
SetTransformMatrices == {<<<<F(1), F(0)>>>>, <<<<F(1), F(0)>>, <<F(0), F(1)>>>>}

SetTransformInit ==
    /\ images = <<ImgM>>
    /\ mask = <<1, 1, 1, 2, 2, 2>>
    /\ objs = <<>>
    /\ ts = NoSet
    /\ ret = [op |-> "init"]

\* ts.addClass(cl) with a class of the band count of the set and its classes
AddEqualBands(o) ==
    /\ ts.numBands \in {None, Some(objs[o].numBands)}
    /\ \A k \in DOMAIN ts.classes : objs[ts.classes[k]].numBands = objs[o].numBands
    /\ AddClass(o)

\* ts.transform(X)
SetTransform(X) ==
    /\ \E r \in {setTransform(ts, objs, images, X)} :
         /\ Len(r.images) <= MaxImages
         /\ images' = r.images
         /\ objs' = r.objs
         /\ ts' = r.ts
         /\ ret' = [op |-> "setTransform", X |-> X, exc |-> r.exc]
    /\ UNCHANGED mask

SetTransformNext ==
    \/ \E index \in Labels : NewClass(index)
    \/ \E o \in 1..Len(objs) : CalcStatistics(o)
    \/ \E o \in 1..Len(objs) : AddEqualBands(o)
    \/ \E X \in SetTransformMatrices : SetTransform(X)

SpecSetTransform == SetTransformInit /\ [][SetTransformNext]_vars

\* C18: after any sequence of addClass calls with classes of equal band count
\* and TrainingClassSet.transform(X) calls, returning or failing part-way,
\* every class of the set has the numBands of the set.
C18_ClassBandsEqualSetBands ==
    \A k \in DOMAIN ts.classes : Some(objs[ts.classes[k]].numBands) = ts.numBands

=============================================================================
